---- MODULE Spec2Model ----
(***************************************************************************)
(* State-machine model of the occupancy core of src/App.tsx: the message   *)
(* handler ws.onmessage / processWebSocketData (registry merge and         *)
(* statistics), the render tick updateSimulation (interpolation, trail,    *)
(* heatmap accumulation, publication) and the facility-switch effect.      *)
(*                                                                         *)
(* Numbers.  Coordinates are JavaScript doubles in the source.  Here they  *)
(* are fixed-point integers, Q units per floor-plan unit, and a product    *)
(* is rounded to the nearest unit, as the floating-point multiply rounds   *)
(* to the nearest representable value.  Time is counted in hundredths of   *)
(* a millisecond since the time origin (performance.now() * 100).  Heat    *)
(* is counted in units of 1 / (100 * 1667): one tick adds 0.02 * dt with   *)
(* dt = (time - lastTime) / 16.67, that is 2 * (time - lastTime) heat      *)
(* units, and a heat of 1.0 is 166700 units.                               *)
(*                                                                         *)
(* Scheduling.  JavaScript runs one task at a time, so an action is one    *)
(* event handler together with the React render and the effects it         *)
(* causes: a message (ws.onmessage and the two state updaters it queues),  *)
(* an animation frame (updateSimulation and its updater), or a change of   *)
(* the facility selector (setCurrentStoreIdx, the render, the reset        *)
(* effect).  Every event is later than the event before it.                *)
(*                                                                         *)
(* Errors.  An exception thrown inside ws.onmessage is caught there.  An   *)
(* exception thrown by a state updater surfaces in the render; App has no  *)
(* error boundary, so React unmounts the component and its effects are     *)
(* cleaned up (the socket closed, the animation frame cancelled).  The     *)
(* variable crashed records that; no event is handled after it.            *)
(*                                                                         *)
(* History.  The variable last records the latest event, its input and     *)
(* the state it started from; the program does not read it.                *)
(***************************************************************************)
EXTENDS Integers, Sequences, FiniteSets, TLC

VARIABLES
    currentStoreIdx,        \* useState(0), index into STORES (0-based)
    customers,              \* useState<Customer[]>([]): the live set
    dailyStats,             \* useState({...}): the statistics
    liveImage,              \* useState<string | null>(null)
    heatmap,                \* useState<Float32Array>: the published heatmap
    heatmapAccumulatorRef,  \* useRef<Float32Array>: the accumulator
    lastTimeRef,            \* useRef<number>(performance.now())
    entryTimesRef,          \* useRef<Map<string, number>>: id -> Date.now()
    crashed,                \* the component was unmounted by a render error
    clock,                  \* the time of the latest event (1/100 ms)
    last                    \* history: the latest event and its input

vars == <<currentStoreIdx, customers, dailyStats, liveImage, heatmap,
          heatmapAccumulatorRef, lastTimeRef, entryTimesRef, crashed, clock,
          last>>

----------------------------------------------------------------------------
(* Bounds of the model *)

\* fixed-point resolution: units per floor-plan unit
Q == 20
\* performance.now() * 100 when the component mounts
StartClock == 3400
\* Spec: no event is taken later than this after the mount (1/100 ms)
Span == 4700
\* Date.now() - performance.now(), in ms
TimeOrigin == 1000
\* time between a message or a facility switch and the event before it
MsgGap == 1000
\* SpecStats: no event is taken later than this after the mount
StatsSpan == 2300
\* SpecMotion: no message or facility switch is taken later than this
MotionMsgSpan == 3800
\* SpecMotion: no tick is taken later than this after the mount
MotionSpan == 92300
\* SpecWire: no event is taken later than this after the mount
WireSpan == 3700
\* SpecGrid: no message or facility switch is taken later than this
GridMsgSpan == 2000
\* SpecGrid: no tick is taken later than this after the mount
GridSpan == 83350

----------------------------------------------------------------------------
(* Program constants *)

GRID_SIZE == 25

\* 16.67 ms per frame, in 1/100 ms
FRAME == 1667

\* path = [...path.slice(-15), pos]
TRAIL_KEEP == 15

\* ... > 30 : the trail spacing threshold, floor-plan units
TRAIL_STEP == 30

\* heatmapAccumulatorRef.current[idx] += 0.02 * dt: the factor, in 1/100
HEAT_RATE == 2

\* Math.floor(time) % 60 === 0
PUBLISH_MOD == 60

\* the fields of STORES the core reads
STORES ==
    << [id |-> "coldroom1", width |-> 1516, height |-> 1016],
       [id |-> "coldroom2", width |-> 1118, height |-> 690] >>

MALE == "MALE"
FEMALE == "FEMALE"
WALKING == "WALKING"

\* liveImage === null
NoImage == <<>>

\* a message whose data field is missing
NoData == [missing |-> TRUE]

----------------------------------------------------------------------------
(* Arithmetic helpers *)

Abs(n) == IF n < 0 THEN -n ELSE n

\* Math.ceil(a / b) for a >= 0, b > 0
Ceil(a, b) == (a + b - 1) \div b

\* Math.floor(a / b) for b > 0
Floor(a, b) == a \div b

\* n / d rounded to the nearest integer, ties away from zero (d > 0)
RoundDiv(n, d) ==
    IF n >= 0 THEN (2 * n + d) \div (2 * d)
    ELSE -((2 * (-n) + d) \div (2 * d))

\* the store selected by an index
StoreAt(idx) == STORES[idx + 1]

COLS(store) == Ceil(store.width, GRID_SIZE)
ROWS(store) == Ceil(store.height, GRID_SIZE)

\* performance.now(): 1/100 ms since the time origin
PerformanceNow(t) == t

\* Date.now(): whole milliseconds of wall-clock time
DateNow(t) == TimeOrigin + Floor(t, 100)

----------------------------------------------------------------------------
(* Float32Array: a length and the cells that are not zero *)

NewFloat32Array(n) == [length |-> n, nz |-> <<>>]

\* arr[i] !== undefined: the index lies inside the array
ArrayHas(arr, i) == i >= 0 /\ i < arr.length

\* arr[i], for an index inside the array
ArrayGet(arr, i) == IF i \in DOMAIN arr.nz THEN arr.nz[i] ELSE 0

\* arr[i] += d, for an index inside the array
ArrayAdd(arr, i, d) ==
    LET v == ArrayGet(arr, i) + d
        keep == IF v = 0 THEN DOMAIN arr.nz \ {i} ELSE DOMAIN arr.nz \cup {i}
    IN  [arr EXCEPT !.nz = [j \in keep |-> IF j = i THEN v ELSE arr.nz[j]]]

----------------------------------------------------------------------------
(* State after the first render and its effects *)

InitialStats ==
    [totalCustomers |-> 0, quickExits |-> 0, femaleCount |-> 0,
     maleCount |-> 0, totalDwellTimeMs |-> 0, completedVisits |-> 0]

\* the input of an event that has none
NoInput == [kind |-> "none"]

\* history: the state an event started from
Pre ==
    [customers |-> customers, dailyStats |-> dailyStats,
     entryTimesRef |-> entryTimesRef, liveImage |-> liveImage,
     heatmapAccumulatorRef |-> heatmapAccumulatorRef, heatmap |-> heatmap,
     currentStoreIdx |-> currentStoreIdx, lastTimeRef |-> lastTimeRef,
     clock |-> clock, people |-> last.people, op |-> last.op]

\* history: the latest event (op), the message it received, the update it
\* merged, the state it started from, and the people list of the latest merge
\* since the facility was selected (<<>> when there is none, else a
\* one-element sequence holding the list)
Event(op, message, input, people) ==
    [op |-> op, message |-> message, input |-> input, people |-> people,
     pre |-> Pre]

Init ==
    /\ currentStoreIdx = 0
    /\ customers = <<>>
    /\ dailyStats = InitialStats
    /\ liveImage = NoImage
    /\ heatmap = NewFloat32Array(COLS(StoreAt(0)) * ROWS(StoreAt(0)))
    /\ heatmapAccumulatorRef = NewFloat32Array(COLS(StoreAt(0)) * ROWS(StoreAt(0)))
    /\ lastTimeRef = PerformanceNow(StartClock)
    /\ entryTimesRef = <<>>
    /\ crashed = FALSE
    /\ clock = StartClock
    /\ last = [op |-> "init", message |-> NoInput, input |-> NoInput,
               people |-> <<>>, pre |-> [kind |-> "none"]]

----------------------------------------------------------------------------
(* Facility switch: setCurrentStoreIdx, the render, and the reset effect *)

\* mutant of ResetEffect: the live set is emptied, the heat is kept
ResetEffectKeepsHeat(idx) ==
    /\ heatmapAccumulatorRef' = heatmapAccumulatorRef
    /\ heatmap' = heatmap
    /\ customers' = <<>>

ResetEffect(idx) ==
    LET store == StoreAt(idx)
        newSize == Ceil(store.width, GRID_SIZE) * Ceil(store.height, GRID_SIZE)
    IN  /\ heatmapAccumulatorRef' = NewFloat32Array(newSize)
        /\ heatmap' = NewFloat32Array(newSize)
        /\ customers' = <<>>

SwitchStore(idx, t) ==
    /\ idx # currentStoreIdx
    /\ clock' = t
    /\ currentStoreIdx' = idx
    /\ ResetEffect(idx)
    /\ last' = Event("switch", NoInput, NoInput, <<>>)
    /\ UNCHANGED <<dailyStats, liveImage, lastTimeRef, entryTimesRef, crashed>>

----------------------------------------------------------------------------
(* The render tick: updateSimulation *)

\* mutant of Lerp: a factor of 0, the customer never moves
LerpNone(d) == 0 * d

\* mutant of Lerp: a factor of 0.10
LerpTenth(d) == RoundDiv(d * 10, 100)

\* mutant of Lerp: a factor above 1
LerpTooFar(d) == RoundDiv(d * 115, 100)

\* dx * lerpFactor, lerpFactor = 0.15
Lerp(d) == RoundDiv(d * 15, 100)

\* Math.abs(dx) > 0.5 || Math.abs(dy) > 0.5
Significant(dx, dy) == 2 * Abs(dx) > Q \/ 2 * Abs(dy) > Q

\* mutant of FartherThanTrailStep: every move is appended to the trail
FartherThanTrailStepAlways(a, b) == a = a /\ b = b

\* Math.sqrt(Math.pow(a.x - b.x, 2) + Math.pow(a.y - b.y, 2)) > 30
FartherThanTrailStep(a, b) ==
    (a.x - b.x) * (a.x - b.x) + (a.y - b.y) * (a.y - b.y)
        > (TRAIL_STEP * Q) * (TRAIL_STEP * Q)

\* mutant of SliceLast: one entry too many is kept
SliceLastOneMore(path, n) ==
    IF Len(path) <= n + 1 THEN path
    ELSE SubSeq(path, Len(path) - n, Len(path))

\* path.slice(-15)
SliceLast(path, n) ==
    IF Len(path) <= n THEN path ELSE SubSeq(path, Len(path) - n + 1, Len(path))

\* mutant of MoveCustomer: the customer is put on its target
MoveCustomerJump(c) ==
    IF c.pos # c.target
    THEN [c EXCEPT !.pos = c.target, !.path = Append(c.path, c.target)]
    ELSE c

\* the position and the trail of one customer after the tick
MoveCustomer(c) ==
    LET dx == c.target.x - c.pos.x
        dy == c.target.y - c.pos.y
        pos == [x |-> c.pos.x + Lerp(dx), y |-> c.pos.y + Lerp(dy)]
    IN  IF Significant(dx, dy)
        THEN [c EXCEPT
                !.pos = pos,
                !.path = IF Len(c.path) = 0
                            \/ FartherThanTrailStep(pos, c.path[Len(c.path)])
                         THEN Append(SliceLast(c.path, TRAIL_KEEP), pos)
                         ELSE c.path]
        ELSE c

\* mutant of AddHeat: 0.02 is added whatever dt is
AddHeatPerTick(acc, pos, dt, store) ==
    LET gridX == Floor(pos.x, GRID_SIZE * Q)
        gridY == Floor(pos.y, GRID_SIZE * Q)
        COLS_INT == Ceil(store.width, GRID_SIZE)
        ROWS_INT == Ceil(store.height, GRID_SIZE)
        idx == gridY * COLS_INT + gridX
    IN  IF gridX >= 0 /\ gridX < COLS_INT /\ gridY >= 0 /\ gridY < ROWS_INT
           /\ ArrayHas(acc, idx)
        THEN ArrayAdd(acc, idx, HEAT_RATE * FRAME)
        ELSE acc

\* mutant of AddHeat: the cell is not tested against the grid
AddHeatUnchecked(acc, pos, dt, store) ==
    LET gridX == Floor(pos.x, GRID_SIZE * Q)
        gridY == Floor(pos.y, GRID_SIZE * Q)
        COLS_INT == Ceil(store.width, GRID_SIZE)
        idx == gridY * COLS_INT + gridX
    IN  IF ArrayHas(acc, idx)
        THEN ArrayAdd(acc, idx, HEAT_RATE * dt)
        ELSE acc

\* the heat one customer at pos adds to the accumulator in a tick of dt
AddHeat(acc, pos, dt, store) ==
    LET gridX == Floor(pos.x, GRID_SIZE * Q)
        gridY == Floor(pos.y, GRID_SIZE * Q)
        COLS_INT == Ceil(store.width, GRID_SIZE)
        ROWS_INT == Ceil(store.height, GRID_SIZE)
        idx == gridY * COLS_INT + gridX
    IN  IF gridX >= 0 /\ gridX < COLS_INT /\ gridY >= 0 /\ gridY < ROWS_INT
           /\ ArrayHas(acc, idx)
        THEN ArrayAdd(acc, idx, HEAT_RATE * dt)
        ELSE acc

\* prev.map(c => ...): the customers in order, the accumulator threaded through
RECURSIVE HeatAll(_, _, _, _)
HeatAll(cs, acc, dt, store) ==
    IF cs = <<>> THEN acc
    ELSE HeatAll(Tail(cs), AddHeat(acc, Head(cs).pos, dt, store), dt, store)

\* mutant of MoveAll: a customer that has arrived is dropped
MoveAllDropArrived(cs) ==
    SelectSeq([i \in 1..Len(cs) |-> MoveCustomer(cs[i])],
              LAMBDA c : c.pos # c.target)

MoveAll(cs) == [i \in 1..Len(cs) |-> MoveCustomer(cs[i])]

\* mutant of updateSimulation: the grid is that of the first facility
updateSimulationFirstStore(time, eager) ==
    LET dt == time - lastTimeRef
        store == StoreAt(0)
        moved == MoveAll(customers)
        acc == HeatAll(moved, heatmapAccumulatorRef, dt, store)
    IN  /\ lastTimeRef' = time
        /\ customers' = moved
        /\ heatmapAccumulatorRef' = acc
        /\ heatmap' = IF Floor(time, 100) % PUBLISH_MOD = 0
                      THEN (IF eager THEN acc ELSE heatmapAccumulatorRef)
                      ELSE heatmap

\* mutant of updateSimulation: every tick publishes the accumulator
updateSimulationShared(time, eager) ==
    LET dt == time - lastTimeRef
        store == StoreAt(currentStoreIdx)
        moved == MoveAll(customers)
        acc == HeatAll(moved, heatmapAccumulatorRef, dt, store)
    IN  /\ lastTimeRef' = time
        /\ customers' = moved
        /\ heatmapAccumulatorRef' = acc
        /\ heatmap' = acc

\* eager: the setCustomers updater ran when it was queued, before the
\* publication test of line 267; otherwise it runs at the render, after it.
updateSimulation(time, eager) ==
    LET dt == time - lastTimeRef
        store == StoreAt(currentStoreIdx)
        moved == MoveAll(customers)
        acc == HeatAll(moved, heatmapAccumulatorRef, dt, store)
    IN  /\ lastTimeRef' = time
        /\ customers' = moved
        /\ heatmapAccumulatorRef' = acc
        /\ heatmap' = IF Floor(time, 100) % PUBLISH_MOD = 0
                      THEN (IF eager THEN acc ELSE heatmapAccumulatorRef)
                      ELSE heatmap

\* a tick, d after the latest event and no later than until
Tick(D, until) ==
    \E d \in D, eager \in BOOLEAN :
        /\ ~crashed
        /\ clock + d <= until
        /\ clock' = clock + d
        /\ updateSimulation(PerformanceNow(clock + d), eager)
        /\ last' = Event("tick", NoInput, NoInput, last.people)
        /\ UNCHANGED <<currentStoreIdx, dailyStats, liveImage, entryTimesRef,
                       crashed>>

----------------------------------------------------------------------------
(* The message handler: ws.onmessage and processWebSocketData *)

\* mutant of ToLowerCase: the string is compared as it is
ToLowerCaseNot(s) == s

\* String.prototype.toLowerCase on the gender strings of the model
ToLowerCase(s) ==
    CASE s = "Female" -> "female"
      [] s = "FEMALE" -> "female"
      [] s = "Male" -> "male"
      [] s = "MALE" -> "male"
      [] OTHER -> s

\* (Math.atan2(y, x) * 180) / Math.PI on the eight compass directions
Atan2Deg(y, x) ==
    CASE y = 0 /\ x >= 0 -> 0
      [] y = 0 /\ x < 0 -> 180
      [] x = 0 /\ y > 0 -> 90
      [] x = 0 /\ y < 0 -> -90
      [] x > 0 /\ y = x -> 45
      [] x > 0 /\ y = -x -> -45
      [] x < 0 /\ y = -x -> 135
      [] x < 0 /\ y = x -> -135

\* mutant of FindIndex: the lookup never finds the id
FindIndexNotFound(cs, id) == 0

\* prevCustomers.find(c => c.id === id): the index of the first match, or 0
FindIndex(cs, id) ==
    IF \E i \in 1..Len(cs) : cs[i].id = id
    THEN CHOOSE i \in 1..Len(cs) :
             /\ cs[i].id = id
             /\ \A j \in 1..(i - 1) : cs[j].id # id
    ELSE 0

\* plan_data.filter(p => p.gender.toLowerCase() === g).length
RECURSIVE CountGender(_, _)
CountGender(plan, g) ==
    IF plan = <<>> THEN 0
    ELSE (IF ToLowerCase(Head(plan).gender) = g THEN 1 ELSE 0)
         + CountGender(Tail(plan), g)

\* mutant of StatsFromUpdate: the upstream counters are always adopted
StatsFromUpdateAlways(prev, data) ==
    [prev EXCEPT
        !.totalCustomers = data.entry_number,
        !.quickExits = data.short_dwell_number,
        !.femaleCount = CountGender(data.plan_data, "female"),
        !.maleCount = CountGender(data.plan_data, "male")]

\* the first setDailyStats updater of processWebSocketData
StatsFromUpdate(prev, data) ==
    LET currentFemales == CountGender(data.plan_data, "female")
        currentMales == CountGender(data.plan_data, "male")
    IN  [prev EXCEPT
            !.totalCustomers =
                IF data.entry_number > 0 THEN data.entry_number ELSE @,
            !.quickExits =
                IF data.short_dwell_number > 0 THEN data.short_dwell_number ELSE @,
            !.femaleCount = currentFemales,
            !.maleCount = currentMales]

\* p.gender.toLowerCase() === 'female' ? Gender.FEMALE : Gender.MALE
GenderOf(p) == IF ToLowerCase(p.gender) = "female" THEN FEMALE ELSE MALE

ColorOf(gender) == IF gender = FEMALE THEN "#ec4899" ELSE "#06b6d4"

\* { x: p.position[0], y: p.position[1] }, in fixed-point units
TargetPos(p) == [x |-> p.position[1] * Q, y |-> p.position[2] * Q]

TargetAngle(p) == Atan2Deg(p.orientation[2], p.orientation[1])

\* mutant of UpdatedCustomer: the display position snaps to the report
UpdatedCustomerSnapped(existing, p) ==
    [existing EXCEPT
        !.pos = [x |-> p.position[1] * Q, y |-> p.position[2] * Q],
        !.target = [x |-> p.position[1] * Q, y |-> p.position[2] * Q],
        !.state = "WALKING"]

\* the object pushed for an id found in prevCustomers
UpdatedCustomer(existing, p) ==
    [existing EXCEPT
        !.target = TargetPos(p),
        !.angle = TargetAngle(p),
        !.age = p.age,
        !.state = WALKING]

\* the object pushed for an id not found in prevCustomers
NewCustomer(p, now) ==
    [id |-> p.track_id,
     pos |-> TargetPos(p),
     target |-> TargetPos(p),
     state |-> WALKING,
     angle |-> TargetAngle(p),
     totalStartTime |-> now,
     path |-> <<TargetPos(p)>>,
     color |-> ColorOf(GenderOf(p)),
     gender |-> GenderOf(p),
     age |-> p.age]

\* entryTimesRef.current.set(id, Date.now()) unless the map has the id
RecordEntry(entryTimes, id, dateNow) ==
    IF id \in DOMAIN entryTimes THEN entryTimes
    ELSE [k \in DOMAIN entryTimes \cup {id} |->
             IF k = id THEN dateNow ELSE entryTimes[k]]

\* data.plan_data.forEach(p => ...): nextCustomers and the entry-time map
RECURSIVE MergePeople(_, _, _, _, _, _)
MergePeople(plan, prevCustomers, nextCustomers, entryTimes, now, dateNow) ==
    IF plan = <<>> THEN [next |-> nextCustomers, entryTimes |-> entryTimes]
    ELSE LET p == Head(plan)
             found == FindIndex(prevCustomers, p.track_id)
         IN  IF found # 0
             THEN MergePeople(Tail(plan), prevCustomers,
                      Append(nextCustomers,
                             UpdatedCustomer(prevCustomers[found], p)),
                      entryTimes, now, dateNow)
             ELSE MergePeople(Tail(plan), prevCustomers,
                      Append(nextCustomers, NewCustomer(p, now)),
                      RecordEntry(entryTimes, p.track_id, dateNow),
                      now, dateNow)

\* mutant of AddVisit: the dwell time is taken off the total
AddVisitBackwards(ds, duration) ==
    [ds EXCEPT !.totalDwellTimeMs = @ - duration, !.completedVisits = @ + 1]

\* the setDailyStats updater queued for one customer that left
AddVisit(ds, duration) ==
    [ds EXCEPT !.totalDwellTimeMs = @ + duration, !.completedVisits = @ + 1]

\* entryTimesRef.current.delete(id)
DeleteEntry(entryTimes, id) == [k \in DOMAIN entryTimes \ {id} |-> entryTimes[k]]

\* prevCustomers.forEach(c => { if (!activeIds.has(c.id)) ... })
RECURSIVE HandleExits(_, _, _, _, _)
HandleExits(prevCustomers, activeIds, entryTimes, ds, dateNow) ==
    IF prevCustomers = <<>> THEN [entryTimes |-> entryTimes, stats |-> ds]
    ELSE LET c == Head(prevCustomers)
             left == c.id \notin activeIds
             \* if (entryTime): the map has the id and the time is not 0
             counted == /\ left
                        /\ c.id \in DOMAIN entryTimes
                        /\ entryTimes[c.id] # 0
         IN  IF counted
             THEN HandleExits(Tail(prevCustomers), activeIds,
                      DeleteEntry(entryTimes, c.id),
                      AddVisit(ds, dateNow - entryTimes[c.id]), dateNow)
             ELSE HandleExits(Tail(prevCustomers), activeIds, entryTimes, ds, dateNow)

\* Object.values(data.video_image[0])[0], as a data URL; else no change
ImageFromUpdate(prev, data) ==
    IF Len(data.video_image) > 0 /\ data.video_image[1] # ""
    THEN <<"data:image/jpeg;base64,", data.video_image[1]>>
    ELSE prev

\* data.plan_data is an array: the updaters can read it
HasPeople(data) == "plan_data" \in DOMAIN data

\* Without plan_data the setDailyStats updater throws on data.plan_data.filter
\* (line 131).  React runs the updater in the render (an eager run swallows
\* the exception and runs it again there), so the exception is not thrown
\* inside ws.onmessage: the render fails and the component is unmounted.
processWebSocketData(data, t) ==
    IF HasPeople(data)
    THEN LET now == PerformanceNow(t)
             dateNow == DateNow(t)
             activeIds ==
                 {data.plan_data[i].track_id : i \in 1..Len(data.plan_data)}
             stats == StatsFromUpdate(dailyStats, data)
             merged == MergePeople(data.plan_data, customers, <<>>,
                                   entryTimesRef, now, dateNow)
             exits == HandleExits(customers, activeIds, merged.entryTimes,
                                  stats, dateNow)
         IN  /\ liveImage' = ImageFromUpdate(liveImage, data)
             /\ customers' = merged.next
             /\ entryTimesRef' = exits.entryTimes
             /\ dailyStats' = exits.stats
             /\ crashed' = FALSE
    ELSE /\ crashed' = TRUE
         /\ UNCHANGED <<liveImage, customers, entryTimesRef, dailyStats>>

\* mutant of onmessage: the wrapper type is not tested
onmessageAnyType(message, t) ==
    IF message.parses /\ message.data # NoData
    THEN /\ processWebSocketData(message.data, t)
         /\ last' = IF HasPeople(message.data)
                    THEN Event("merge", message, message.data,
                               <<message.data.plan_data>>)
                    ELSE Event("crash", message, NoInput, last.people)
    ELSE /\ UNCHANGED <<liveImage, customers, entryTimesRef, dailyStats,
                        crashed>>
         /\ last' = Event("drop", message, NoInput, last.people)

\* ws.onmessage: parse, test the wrapper, merge; anything else is dropped
\* (an unparsable text throws in JSON.parse and the catch logs it)
onmessage(message, t) ==
    IF message.parses /\ message.type = "device_data" /\ message.data # NoData
    THEN /\ processWebSocketData(message.data, t)
         /\ last' = IF HasPeople(message.data)
                    THEN Event("merge", message, message.data,
                               <<message.data.plan_data>>)
                    ELSE Event("crash", message, NoInput, last.people)
    ELSE /\ UNCHANGED <<liveImage, customers, entryTimesRef, dailyStats,
                        crashed>>
         /\ last' = Event("drop", message, NoInput, last.people)

\* a message of M, d after the latest event and no later than until
Message(M, D, until) ==
    \E message \in M, d \in D :
        /\ ~crashed
        /\ clock + d <= until
        /\ clock' = clock + d
        /\ onmessage(message, clock + d)
        /\ UNCHANGED <<currentStoreIdx, heatmap, heatmapAccumulatorRef, lastTimeRef>>

\* the selector's onChange, d after the latest event and no later than until
Switch(D, until) ==
    \E idx \in 0..(Len(STORES) - 1), d \in D :
        /\ ~crashed
        /\ clock + d <= until
        /\ SwitchStore(idx, clock + d)

----------------------------------------------------------------------------
(* Inputs *)

\* sequences over S of length at most n
SeqUpTo(S, n) == UNION {[1..k -> S] : k \in 0..n}

\* PlanData records
People(ids, positions, orientations, genders, ages) ==
    [track_id : ids, position : positions, orientation : orientations,
     gender : genders, age : ages]

\* WebSocketResponse records
Responses(entries, shortDwells, images, plans) ==
    [entry_number : entries, short_dwell_number : shortDwells,
     video_image : images, plan_data : plans]

\* WebSocketMessage: a device_data wrapper around each response
Wrapped(responses) ==
    {[parses |-> TRUE, type |-> "device_data", data |-> r] : r \in responses}

\* messages the handler drops: unparsable, wrong wrapper type, no data
Malformed(responses) ==
    {[parses |-> FALSE, type |-> "", data |-> NoData],
     [parses |-> TRUE, type |-> "device_data", data |-> NoData]}
    \cup {[parses |-> TRUE, type |-> "status", data |-> r] : r \in responses}

\* device_data messages whose data has no plan_data
Incomplete(entries, shortDwells, images) ==
    {[parses |-> TRUE, type |-> "device_data", data |-> r] :
        r \in [entry_number : entries, short_dwell_number : shortDwells,
               video_image : images]}

----------------------------------------------------------------------------
(* Specification of the registry: merges, ticks and facility switches over *)
(* two ids, with repeated ids in one people list                           *)

SpecPeople ==
    People({"a", "b"}, {<<10, 10>>}, {<<1, 0>>}, {"male"}, {"30"})
    \cup People({"a", "b"}, {<<60, 40>>}, {<<0, 1>>}, {"male"}, {"30"})

SpecResponses ==
    Responses({0}, {0}, {<<>>}, SeqUpTo(SpecPeople, 2))

SpecMessages ==
    Wrapped(SpecResponses)
    \cup Malformed({r \in SpecResponses : r.plan_data = <<>>})

Next ==
    \/ Message(SpecMessages, {MsgGap}, StartClock + Span)
    \/ Tick({FRAME}, StartClock + Span)
    \/ Switch({MsgGap}, StartClock + Span)

Spec == Init /\ [][Next]_vars

----------------------------------------------------------------------------
(* Specification of the statistics: upstream counters and gender strings   *)
(* vary; positions do not                                                  *)

StatsPeople ==
    People({"a", "b"}, {<<10, 10>>}, {<<1, 0>>}, {"Female", "male", "unknown"},
           {"30"})

StatsResponses ==
    Responses({0, 42}, {0, 7}, {<<>>}, SeqUpTo(StatsPeople, 2))

StatsMessages ==
    Wrapped(StatsResponses)
    \cup Malformed({r \in StatsResponses : r.plan_data = <<>>})

NextStats ==
    \/ Message(StatsMessages, {MsgGap}, StartClock + StatsSpan)
    \/ Tick({FRAME}, StartClock + StatsSpan)
    \/ Switch({MsgGap}, StartClock + StatsSpan)

SpecStats == Init /\ [][NextStats]_vars

----------------------------------------------------------------------------
(* Specification of the motion: one id reported at near and far positions  *)
(* in the first frames, then ticks until it has settled                    *)

MotionPeople ==
    People({"a"}, {<<10, 10>>, <<11, 10>>, <<1500, 900>>}, {<<1, 0>>}, {"male"},
           {"30"})

MotionResponses == Responses({0}, {0}, {<<>>}, SeqUpTo(MotionPeople, 1))

MotionMessages ==
    Wrapped(MotionResponses)
    \cup Malformed({r \in MotionResponses : r.plan_data = <<>>})

NextMotion ==
    \/ Message(MotionMessages, {MsgGap}, StartClock + MotionMsgSpan)
    \/ Tick({FRAME}, StartClock + MotionSpan)
    \/ Switch({MsgGap}, StartClock + MotionMsgSpan)

SpecMotion == Init /\ [][NextMotion]_vars

\* the browser keeps calling the animation frame while the component is
\* mounted (line 271 requests the next frame in every frame)
SpecSettle ==
    SpecMotion /\ WF_vars(Tick({FRAME}, StartClock + MotionSpan))

----------------------------------------------------------------------------
(* Specification of the wire: one id under every spelling of the gender,   *)
(* alone or beside a second id, updates with and without a camera image,   *)
(* and messages the handler cannot merge                                   *)

WirePeople ==
    People({"a"}, {<<10, 10>>}, {<<1, 0>>},
           {"female", "Female", "FEMALE", "male", "Male", "unknown"}, {"30"})

WireOthers == People({"b"}, {<<10, 10>>}, {<<1, 0>>}, {"male"}, {"30"})

WireResponses ==
    Responses({0}, {0}, {<<>>, <<"AAAA">>},
              SeqUpTo(WirePeople, 1)
              \cup {<<p, q>> : p \in WirePeople, q \in WireOthers})

WireMessages ==
    Wrapped(WireResponses)
    \cup Malformed({r \in WireResponses :
                       /\ r.video_image # <<>>
                       /\ Len(r.plan_data) = 1
                       /\ r.plan_data[1].gender = "male"})
    \cup Incomplete({0}, {0}, {<<>>})

NextWire ==
    \/ Message(WireMessages, {MsgGap}, StartClock + WireSpan)
    \/ Tick({FRAME}, StartClock + WireSpan)
    \/ Switch({MsgGap}, StartClock + WireSpan)

SpecWire == Init /\ [][NextWire]_vars

----------------------------------------------------------------------------
(* Specification of the grid: one id reported inside the grid, left of it  *)
(* and right of it (at two distances), alone or beside a second id inside  *)
(* the grid, in the first frames; then                                     *)
(* fifty frames of ticks.  A tick comes one frame after the latest event,  *)
(* or, in the first frames, one frame after the tick before a message.     *)

GridPeople ==
    People({"a"}, {<<10, 10>>, <<-5, 30>>, <<1530, 10>>, <<1830, 10>>},
           {<<1, 0>>}, {"male"}, {"30"})

GridOthers == People({"b"}, {<<10, 10>>}, {<<1, 0>>}, {"male"}, {"30"})

GridResponses ==
    Responses({0}, {0}, {<<>>},
              SeqUpTo(GridPeople, 1)
              \cup {<<p, q>> : p \in GridPeople, q \in GridOthers})

GridMessages ==
    Wrapped(GridResponses)
    \cup Malformed({r \in GridResponses : r.plan_data = <<>>})

NextGrid ==
    \/ Message(GridMessages, {MsgGap}, StartClock + GridMsgSpan)
    \/ Tick({FRAME - MsgGap, FRAME}, StartClock + GridMsgSpan)
    \/ Tick({FRAME}, StartClock + GridSpan)
    \/ Switch({MsgGap}, StartClock + GridMsgSpan)

SpecGrid == Init /\ [][NextGrid]_vars

----------------------------------------------------------------------------
(* Specification of the grid index: one id reported in a cell that lies    *)
(* in both grids, in the last cell of the smaller grid, or in the larger   *)
(* grid only (by its column or by its row), alone or beside a second id;   *)
(* messages, ticks and switches in any order.                              *)

\* SpecIndex: no event is taken later than this after the mount (1/100 ms)
IndexSpan == 4400

IndexPeople ==
    People({"a"}, {<<60, 40>>, <<1120, 695>>, <<1200, 40>>, <<60, 710>>},
           {<<1, 0>>}, {"male"}, {"30"})

IndexOthers == People({"b"}, {<<60, 40>>}, {<<1, 0>>}, {"male"}, {"30"})

IndexResponses ==
    Responses({0}, {0}, {<<>>},
              SeqUpTo(IndexPeople, 1)
              \cup {<<p, q>> : p \in IndexPeople, q \in IndexOthers})

IndexMessages ==
    Wrapped(IndexResponses)
    \cup Malformed({r \in IndexResponses : r.plan_data = <<>>})

NextIndex ==
    \/ Message(IndexMessages, {MsgGap}, StartClock + IndexSpan)
    \/ Tick({FRAME - MsgGap, FRAME}, StartClock + IndexSpan)
    \/ Switch({MsgGap}, StartClock + IndexSpan)

SpecIndex == Init /\ [][NextIndex]_vars

----------------------------------------------------------------------------
(* Vocabulary of the properties *)

\* the ids of a live set / of a people list
IdsOf(cs) == {cs[i].id : i \in 1..Len(cs)}
PlanIds(plan) == {plan[i].track_id : i \in 1..Len(plan)}

\* the latest event was a merge; its people list and the live set before it
Merged == last.op = "merge"
MergedPlan == last.input.plan_data
PrevCustomers == last.pre.customers

\* the wall-clock time (ms) of the merge that created an entity
EntryTimestamp(c) == TimeOrigin + (c.totalStartTime \div 100)

\* the wall-clock time (ms) of the latest event
WallClock == TimeOrigin + (clock \div 100)

\* the positions (in PrevCustomers) of the entities the latest merge found absent
Absent == {i \in 1..Len(PrevCustomers) : PrevCustomers[i].id \notin PlanIds(MergedPlan)}

\* the dwell times, up to the latest event, of the entities at positions S
\* of PrevCustomers, summed
RECURSIVE DwellSum(_)
DwellSum(S) ==
    IF S = {} THEN 0
    ELSE LET i == CHOOSE j \in S : TRUE
         IN  (WallClock - EntryTimestamp(PrevCustomers[i])) + DwellSum(S \ {i})

----------------------------------------------------------------------------
(* Registry properties *)

\* C1: after any sequence of merges, ticks and facility switches, no two
\* entities of the live set have the same id.
UniqueIds ==
    \A i, j \in 1..Len(customers) : customers[i].id = customers[j].id => i = j

\* C2: a merge removes every entity that was live before it and whose id is
\* absent from the people list, and for each such entity completedVisits
\* grows by exactly 1 and totalDwellTimeMs by (time of the merge - the
\* entity's entry timestamp).
RetirementAccounting ==
    Merged =>
        /\ \A i \in Absent : PrevCustomers[i].id \notin IdsOf(customers)
        /\ dailyStats.completedVisits
             = last.pre.dailyStats.completedVisits + Cardinality(Absent)
        /\ dailyStats.totalDwellTimeMs
             = last.pre.dailyStats.totalDwellTimeMs + DwellSum(Absent)

\* C3: after a merge the ids of the live set are exactly the ids of the
\* people list; an id that was live is kept as the same entity (position,
\* trail, start time, gender) with the reported target; an id that was not
\* live is created at the reported position at the time of the merge; an
\* id that was live and is absent is gone in that same merge.
Lifecycle ==
    Merged =>
        /\ IdsOf(customers) = PlanIds(MergedPlan)
        /\ \A k \in 1..Len(customers) :
              LET n == customers[k]
              IN  /\ \E p \in {MergedPlan[j] : j \in 1..Len(MergedPlan)} :
                        /\ n.id = p.track_id
                        /\ n.target = [x |-> p.position[1] * Q, y |-> p.position[2] * Q]
                  /\ IF n.id \in IdsOf(PrevCustomers)
                     THEN \E i \in 1..Len(PrevCustomers) :
                            /\ PrevCustomers[i].id = n.id
                            /\ n.pos = PrevCustomers[i].pos
                            /\ n.path = PrevCustomers[i].path
                            /\ n.totalStartTime = PrevCustomers[i].totalStartTime
                            /\ n.gender = PrevCustomers[i].gender
                     ELSE /\ n.pos = n.target
                          /\ n.path = <<n.pos>>
                          /\ n.totalStartTime = clock

\* a merge that kept one entity, which had moved, and created another
LifecycleWitness ==
    /\ Merged
    /\ \E k \in 1..Len(customers) :
          /\ customers[k].totalStartTime < clock
          /\ customers[k].pos # customers[k].target
          /\ customers[k].path[1] # customers[k].pos
    /\ \E k \in 1..Len(customers) : customers[k].totalStartTime = clock
    /\ last.pre.dailyStats.completedVisits > 0

\* C4: the entry timestamp stored for an entity's dwell computation is the
\* time of the merge that created the entity, also for an id that reappears
\* after having left the live set.
FreshEntryTimestamp ==
    \A i \in 1..Len(customers) :
        /\ customers[i].id \in DOMAIN entryTimesRef
        /\ entryTimesRef[customers[i].id] = EntryTimestamp(customers[i])

----------------------------------------------------------------------------
(* Statistics properties *)

\* C5: after a merge totalCustomers is the update's entry_number when that
\* is not zero and its previous value otherwise, and likewise quickExits
\* with short_dwell_number (the upstream counters are counts: never
\* negative).
AdoptionRule ==
    Merged =>
        /\ dailyStats.totalCustomers
             = IF last.input.entry_number # 0 THEN last.input.entry_number
               ELSE last.pre.dailyStats.totalCustomers
        /\ dailyStats.quickExits
             = IF last.input.short_dwell_number # 0
               THEN last.input.short_dwell_number
               ELSE last.pre.dailyStats.quickExits

\* upstream reported 42 (and 7), then 0 (and 0): the totals are kept
AdoptionRuleWitness ==
    /\ Merged
    /\ last.input.entry_number = 0
    /\ last.input.short_dwell_number = 0
    /\ dailyStats.totalCustomers = 42
    /\ dailyStats.quickExits = 7

\* C6: after a merge femaleCount is the number of live entities whose gender
\* is FEMALE and maleCount the number whose gender is MALE.
ActiveGenderCounts ==
    Merged =>
        /\ dailyStats.femaleCount
             = Cardinality({i \in 1..Len(customers) : customers[i].gender = FEMALE})
        /\ dailyStats.maleCount
             = Cardinality({i \in 1..Len(customers) : customers[i].gender = MALE})

----------------------------------------------------------------------------
(* Interpolation properties *)

\* the latest event was a tick
Ticked == last.op = "tick"

\* a remaining displacement e lies between 0 and the displacement d before
NotPast(d, e) == IF d >= 0 THEN 0 <= e /\ e <= d ELSE d <= e /\ e <= 0

\* C8: in a tick, an entity with |dx| > 0.5 or |dy| > 0.5 comes strictly
\* closer to its target and passes it on neither axis; an entity with
\* |dx| <= 0.5 and |dy| <= 0.5 keeps its display position exactly.
MonotonicConvergence ==
    Ticked =>
        \A i \in 1..Len(customers) :
            LET before == PrevCustomers[i]
                dx == before.target.x - before.pos.x
                dy == before.target.y - before.pos.y
                ex == before.target.x - customers[i].pos.x
                ey == before.target.y - customers[i].pos.y
            IN  IF 2 * Abs(dx) > Q \/ 2 * Abs(dy) > Q
                THEN /\ ex * ex + ey * ey < dx * dx + dy * dy
                     /\ NotPast(dx, ex)
                     /\ NotPast(dy, ey)
                ELSE customers[i].pos = before.pos

\* an entity that has travelled the length of the floor rests within the
\* threshold, short of its target, and the tick leaves it where it was
MonotonicConvergenceWitness ==
    /\ Ticked
    /\ \E i \in 1..Len(customers) :
          /\ customers[i].pos = PrevCustomers[i].pos
          /\ customers[i].pos # customers[i].target
          /\ Len(customers[i].path) = 16

\* C9: every live entity's trail has at most 16 entries, and an entity a
\* merge has just created has a trail of exactly one entry, its initial
\* position.
TrailBounded ==
    /\ \A i \in 1..Len(customers) : Len(customers[i].path) <= 16
    /\ Merged =>
          \A k \in 1..Len(customers) :
              customers[k].id \notin IdsOf(PrevCustomers) =>
                  /\ Len(customers[k].path) = 1
                  /\ customers[k].path[1] = customers[k].pos
                  /\ customers[k].pos
                       = [x |-> MergedPlan[k].position[1] * Q,
                          y |-> MergedPlan[k].position[2] * Q]

\* a tick appended to a trail that already had 16 entries
TrailBoundedWitness ==
    /\ Ticked
    /\ \E i \in 1..Len(customers) :
          /\ Len(PrevCustomers[i].path) = 16
          /\ Len(customers[i].path) = 16
          /\ customers[i].path # PrevCustomers[i].path

----------------------------------------------------------------------------
(* Heatmap properties *)

\* the value of cell i of a Float32Array
Cell(arr, i) == IF i \in DOMAIN arr.nz THEN arr.nz[i] ELSE 0

\* every cell of the array is zero
AllZero(arr) == \A i \in DOMAIN arr.nz : arr.nz[i] = 0

\* the number of grid cells of a facility
GridCells(store) ==
    ((store.width + GRID_SIZE - 1) \div GRID_SIZE)
        * ((store.height + GRID_SIZE - 1) \div GRID_SIZE)

\* C10: no tick or merge decreases a cell of the accumulator; after a
\* facility switch the accumulator and the published heatmap are all zeros
\* and have ceil(width/25) * ceil(height/25) cells for the new facility.
HeatmapMonotonicReset ==
    /\ last.op \in {"tick", "merge", "drop"} =>
          /\ heatmapAccumulatorRef.length = last.pre.heatmapAccumulatorRef.length
          /\ \A i \in DOMAIN heatmapAccumulatorRef.nz
                       \cup DOMAIN last.pre.heatmapAccumulatorRef.nz :
                Cell(heatmapAccumulatorRef, i)
                    >= Cell(last.pre.heatmapAccumulatorRef, i)
    /\ last.op = "switch" =>
          /\ AllZero(heatmapAccumulatorRef)
          /\ AllZero(heatmap)
          /\ heatmapAccumulatorRef.length = GridCells(STORES[currentStoreIdx + 1])
          /\ heatmap.length = GridCells(STORES[currentStoreIdx + 1])

\* a facility switch from a state with heat in the accumulator and in the
\* published heatmap, to a facility of another size
HeatmapMonotonicResetWitness ==
    /\ last.op = "switch"
    /\ \E i \in DOMAIN last.pre.heatmapAccumulatorRef.nz :
          last.pre.heatmapAccumulatorRef.nz[i] > 0
    /\ \E i \in DOMAIN last.pre.heatmap.nz : last.pre.heatmap.nz[i] > 0
    /\ heatmap.length # last.pre.heatmap.length

----------------------------------------------------------------------------
(* Facility switch properties *)

\* C11: once a facility switch has completed, and before any further
\* message, the live set is empty and nothing derived from the entities of
\* the old facility remains: the accumulator and the published heatmap are
\* zero, femaleCount and maleCount are zero, and no entry timestamp is stored.
SwitchLeavesNothing ==
    last.op = "switch" =>
        /\ customers = <<>>
        /\ AllZero(heatmapAccumulatorRef)
        /\ AllZero(heatmap)
        /\ dailyStats.femaleCount = 0
        /\ dailyStats.maleCount = 0
        /\ DOMAIN entryTimesRef = {}

----------------------------------------------------------------------------
(* Statistics properties *)

\* the latest event retired an entity: a merge whose people list lacks the
\* id of an entity that was live
Retired == Merged /\ Absent # {}

\* C13: completedVisits and totalDwellTimeMs never decrease, and an event
\* that is not a merge retiring at least one entity (a tick, a facility
\* switch, a dropped message, a merge that retires nobody) leaves both
\* unchanged.
VisitsMonotonic ==
    last.op # "init" =>
        /\ dailyStats.completedVisits >= last.pre.dailyStats.completedVisits
        /\ dailyStats.totalDwellTimeMs >= last.pre.dailyStats.totalDwellTimeMs
        /\ ~Retired =>
              /\ dailyStats.completedVisits = last.pre.dailyStats.completedVisits
              /\ dailyStats.totalDwellTimeMs
                   = last.pre.dailyStats.totalDwellTimeMs

\* a merge retired an entity and both statistics grew, after earlier growth
VisitsMonotonicWitness ==
    /\ Retired
    /\ last.pre.dailyStats.completedVisits > 0
    /\ dailyStats.completedVisits > last.pre.dailyStats.completedVisits
    /\ dailyStats.totalDwellTimeMs > last.pre.dailyStats.totalDwellTimeMs

----------------------------------------------------------------------------
(* Repeated ids in one people list *)

\* the position in a people list of the last record for an id
LastRecord(plan, id) ==
    CHOOSE j \in 1..Len(plan) :
        /\ plan[j].track_id = id
        /\ \A k \in (j + 1)..Len(plan) : plan[k].track_id # id

\* the heading (degrees) of an orientation along an axis
Heading(o) ==
    CASE o = <<1, 0>> -> 0
      [] o = <<0, 1>> -> 90
      [] o = <<-1, 0>> -> 180
      [] o = <<0, -1>> -> -90

\* C16: after a merge the live set holds exactly one entity for each id of
\* the people list, also for an id the list holds more than once, and the
\* entity's target position and heading are those of the last record for
\* the id in the list.
LastWriteWins ==
    Merged =>
        \A id \in PlanIds(MergedPlan) :
            LET p == MergedPlan[LastRecord(MergedPlan, id)]
            IN  /\ Cardinality({k \in 1..Len(customers) : customers[k].id = id}) = 1
                /\ \A k \in 1..Len(customers) :
                      customers[k].id = id =>
                          /\ customers[k].target
                               = [x |-> p.position[1] * Q, y |-> p.position[2] * Q]
                          /\ customers[k].angle = Heading(p.orientation)

----------------------------------------------------------------------------
(* Message handling properties *)

\* the latest event was a message
Received == last.op \in {"merge", "drop", "crash"}

\* a message the handler cannot merge: the payload does not parse, the
\* wrapper type is not device_data, or the data field is missing
IsMalformed(m) == ~m.parses \/ m.type # "device_data" \/ m.data = NoData

\* a device_data message with an update that has a people list
IsWellFormed(m) == ~IsMalformed(m) /\ "plan_data" \in DOMAIN m.data

\* C12: a message whose payload does not parse, whose wrapper type is not
\* device_data or whose data field is missing changes nothing (live set,
\* statistics, heatmap, live image, entry timestamps) and raises no error
\* past the handler; the well-formed message after it is merged normally.
MalformedDropped ==
    /\ (Received /\ IsMalformed(last.message)) =>
          /\ ~crashed
          /\ customers = last.pre.customers
          /\ dailyStats = last.pre.dailyStats
          /\ heatmap = last.pre.heatmap
          /\ heatmapAccumulatorRef = last.pre.heatmapAccumulatorRef
          /\ liveImage = last.pre.liveImage
          /\ entryTimesRef = last.pre.entryTimesRef
    /\ (Received /\ IsWellFormed(last.message) /\ last.pre.op = "drop") =>
          LET data == last.message.data
          IN  /\ ~crashed
              /\ Len(customers) = Len(data.plan_data)
              /\ \A k \in 1..Len(customers) :
                    /\ customers[k].id = data.plan_data[k].track_id
                    /\ customers[k].target
                         = [x |-> data.plan_data[k].position[1] * Q,
                            y |-> data.plan_data[k].position[2] * Q]
              /\ liveImage = IF data.video_image # <<>>
                             THEN <<"data:image/jpeg;base64,", data.video_image[1]>>
                             ELSE last.pre.liveImage

\* a well-formed message is merged after a message was dropped in a state
\* with a live entity and a live image
MalformedDroppedWitness ==
    /\ Merged
    /\ last.pre.op = "drop"
    /\ last.pre.customers # <<>>
    /\ last.pre.liveImage # NoImage
    /\ customers # <<>>

----------------------------------------------------------------------------
(* Gender decoding properties *)

\* the string equals 'female' ignoring case
IsFemale(g) == g \in {"female", "Female", "FEMALE"}

\* the string equals 'male' ignoring case
IsMale(g) == g \in {"male", "Male", "MALE"}

\* C14: every entity's gender is MALE or FEMALE; an entity created by a
\* merge is FEMALE when its record's gender equals 'female' ignoring case
\* and MALE for every other string; the merge counts the records spelled
\* 'female' (in any case) in femaleCount and none of them in maleCount.
GenderDecoding ==
    /\ \A k \in 1..Len(customers) : customers[k].gender \in {MALE, FEMALE}
    /\ Merged =>
          /\ \A k \in 1..Len(customers) :
                customers[k].id \notin IdsOf(PrevCustomers) =>
                    customers[k].gender
                        = IF IsFemale(MergedPlan[k].gender) THEN FEMALE ELSE MALE
          /\ dailyStats.femaleCount
               = Cardinality({j \in 1..Len(MergedPlan) : IsFemale(MergedPlan[j].gender)})
          /\ dailyStats.maleCount
               = Cardinality({j \in 1..Len(MergedPlan) : IsMale(MergedPlan[j].gender)})

\* a merge created an entity from a record with gender 'Female'
GenderDecodingWitness ==
    /\ Merged
    /\ Len(customers) = 1
    /\ MergedPlan[1].gender = "Female"
    /\ PrevCustomers = <<>>
    /\ customers[1].gender = FEMALE
    /\ dailyStats.femaleCount = 1
    /\ dailyStats.maleCount = 0

----------------------------------------------------------------------------
(* Tick properties *)

\* the time since the tick before the latest event (1/100 ms); the
\* elapsed-frame factor dt of a tick is Elapsed / 1667
Elapsed == clock - last.pre.lastTimeRef

\* the move b - a on one axis is 0.15 of the displacement d, to the nearest
\* unit of the model
IsFraction(a, b, d) == Abs(100 * (b - a) - 15 * d) <= 50

\* the tick moved an entity from before to after by the interpolation step:
\* 0.15 of the displacement on both axes when |dx| > 0.5 or |dy| > 0.5,
\* nothing otherwise
Eased(before, after) ==
    LET dx == before.target.x - before.pos.x
        dy == before.target.y - before.pos.y
    IN  IF 2 * Abs(dx) > Q \/ 2 * Abs(dy) > Q
        THEN /\ IsFraction(before.pos.x, after.pos.x, dx)
             /\ IsFraction(before.pos.y, after.pos.y, dy)
        ELSE after.pos = before.pos

\* the columns and rows of the grid of the selected facility
GridCols == (STORES[currentStoreIdx + 1].width + 24) \div 25
GridRows == (STORES[currentStoreIdx + 1].height + 24) \div 25

\* the cell (floor(x / 25), floor(y / 25)) of a position lies inside the grid
InGrid(pos) ==
    /\ pos.x >= 0
    /\ pos.y >= 0
    /\ pos.x < GridCols * 25 * Q
    /\ pos.y < GridRows * 25 * Q

\* the index row * COLS + col of the cell of a position inside the grid
CellIndex(pos) == (pos.y \div (25 * Q)) * GridCols + (pos.x \div (25 * Q))

\* C15: a merge leaves the display position and the trail of an entity it
\* updates unchanged (only target, heading, age and state may change); a
\* dropped message leaves the live set unchanged; a tick keeps every entity
\* in the live set, moves it by the interpolation step only, and adds heat
\* to the cell of every entity that is in bounds.
NoTeleport ==
    /\ Merged =>
          \A k \in 1..Len(customers) :
              customers[k].id \in IdsOf(PrevCustomers) =>
                  \E i \in 1..Len(PrevCustomers) :
                      /\ PrevCustomers[i].id = customers[k].id
                      /\ customers[k].pos = PrevCustomers[i].pos
                      /\ customers[k].path = PrevCustomers[i].path
                      /\ customers[k].totalStartTime = PrevCustomers[i].totalStartTime
                      /\ customers[k].gender = PrevCustomers[i].gender
                      /\ customers[k].color = PrevCustomers[i].color
    /\ last.op = "drop" => customers = PrevCustomers
    /\ Ticked =>
          /\ Len(customers) = Len(PrevCustomers)
          /\ \A i \in 1..Len(customers) :
                /\ customers[i].id = PrevCustomers[i].id
                /\ customers[i].target = PrevCustomers[i].target
                /\ Eased(PrevCustomers[i], customers[i])
                /\ InGrid(customers[i].pos) =>
                      Cell(heatmapAccumulatorRef, CellIndex(customers[i].pos))
                          > Cell(last.pre.heatmapAccumulatorRef,
                                 CellIndex(customers[i].pos))

\* a tick moves an entity whose target an earlier merge had changed; the
\* entity stays short of the target and heats the cell it is in
NoTeleportWitness ==
    /\ Ticked
    /\ \E i \in 1..Len(customers) :
          /\ customers[i].pos # PrevCustomers[i].pos
          /\ customers[i].pos # customers[i].target
          /\ customers[i].path[1] # customers[i].target
          /\ InGrid(customers[i].pos)
          /\ Cell(heatmapAccumulatorRef, CellIndex(customers[i].pos)) > 0

----------------------------------------------------------------------------
(* Publication properties *)

\* the tick at the latest event publishes: Math.floor(time) % 60 === 0
Publishes == ((clock \div 100) % 60) = 0

\* C20: the published heatmap is a copy of the accumulator taken at the
\* latest publication: a publishing tick sets it to the accumulator of that
\* moment, every other tick and every message leaves it unchanged, a
\* facility switch zeroes it, and every published cell is at most the
\* accumulator's cell.
SnapshotIsCopy ==
    /\ heatmap.length = heatmapAccumulatorRef.length
    /\ \A i \in DOMAIN heatmap.nz :
          Cell(heatmap, i) <= Cell(heatmapAccumulatorRef, i)
    /\ Received => heatmap = last.pre.heatmap
    /\ (Ticked /\ ~Publishes) => heatmap = last.pre.heatmap
    /\ (Ticked /\ Publishes) =>
          heatmap \in {heatmapAccumulatorRef, last.pre.heatmapAccumulatorRef}
    /\ last.op = "switch" => AllZero(heatmap)

\* a tick that does not publish adds heat after a publication: the
\* published heatmap holds heat and is behind the accumulator
SnapshotIsCopyWitness ==
    /\ Ticked
    /\ ~Publishes
    /\ \E i \in DOMAIN heatmap.nz :
          /\ heatmap.nz[i] > 0
          /\ heatmap.nz[i] < Cell(heatmapAccumulatorRef, i)

----------------------------------------------------------------------------
(* Heat properties *)

\* the entities of the live set whose cell lies inside the grid / is cell i
Heating == {k \in 1..Len(customers) : InGrid(customers[k].pos)}
HeatingCell(i) == {k \in Heating : CellIndex(customers[k].pos) = i}

\* the cells that hold heat before or after the latest event
Warm ==
    DOMAIN heatmapAccumulatorRef.nz \cup DOMAIN last.pre.heatmapAccumulatorRef.nz

\* the heat the latest event added to cell i
Added(i) ==
    Cell(heatmapAccumulatorRef, i) - Cell(last.pre.heatmapAccumulatorRef, i)

\* 0.02 * dt in heat units: 0.02 * (Elapsed / 1667) * (100 * 1667)
HeatOfTick == 2 * Elapsed

\* C17: in one tick with elapsed-frame factor dt, every live entity whose
\* cell lies inside the grid adds exactly 0.02 * dt to that cell (index
\* row * COLS + col), and no other cell changes.
HeatIncrement ==
    Ticked =>
        /\ heatmapAccumulatorRef.length = last.pre.heatmapAccumulatorRef.length
        /\ \A k \in Heating :
              /\ CellIndex(customers[k].pos) >= 0
              /\ CellIndex(customers[k].pos) < heatmapAccumulatorRef.length
        /\ \A i \in Warm \cup {CellIndex(customers[k].pos) : k \in Heating} :
              Added(i) = HeatOfTick * Cardinality(HeatingCell(i))

\* a single entity has rested at (10,10) for 50 ticks of one frame each:
\* cell (0,0) holds 50 * 0.02 = 1.0 and every other cell holds 0
HeatIncrementWitness ==
    /\ Ticked
    /\ Elapsed = FRAME
    /\ lastTimeRef = StartClock + 50 * FRAME
    /\ Len(customers) = 1
    /\ customers[1].totalStartTime < StartClock + FRAME
    /\ customers[1].pos = [x |-> 10 * Q, y |-> 10 * Q]
    /\ customers[1].path = <<customers[1].pos>>
    /\ DOMAIN heatmapAccumulatorRef.nz = {0}
    /\ heatmapAccumulatorRef.nz[0] = 100 * FRAME

\* the tick appended the new display position to the trail or left it
TrailAdvanced(before, after) ==
    \/ after.path = before.path
    \/ /\ after.pos # before.pos
       /\ after.path[Len(after.path)] = after.pos
       /\ Len(after.path) <= Len(before.path) + 1

\* C19: in a tick, an entity whose cell is outside the grid changes no
\* heatmap cell and raises no error; its display position and trail are
\* advanced by the same rule as for an entity in bounds; every entity in
\* bounds heats its cell.
OutOfRangeSkipped ==
    Ticked =>
        /\ ~crashed
        /\ Len(customers) = Len(PrevCustomers)
        /\ \A k \in 1..Len(customers) :
              /\ Eased(PrevCustomers[k], customers[k])
              /\ TrailAdvanced(PrevCustomers[k], customers[k])
        /\ \A i \in Warm : Added(i) # 0 => HeatingCell(i) # {}
        /\ \A k \in Heating : Added(CellIndex(customers[k].pos)) > 0

\* a tick moved an entity that is outside the grid and appended to its
\* trail, while an entity in bounds heated its cell
OutOfRangeSkippedWitness ==
    /\ Ticked
    /\ \E k \in 1..Len(customers) :
          /\ ~InGrid(customers[k].pos)
          /\ customers[k].pos # PrevCustomers[k].pos
          /\ customers[k].path # PrevCustomers[k].path
    /\ Heating # {}

----------------------------------------------------------------------------
(* Settling properties *)

\* the display position of a customer is within 0.5 of its target on both axes
Near(c) ==
    /\ 2 * Abs(c.target.x - c.pos.x) <= Q
    /\ 2 * Abs(c.target.y - c.pos.y) <= Q

\* every live entity is within the threshold
Settled == \A i \in 1..Len(customers) : Near(customers[i])

\* a tick leaves an entity that was within the threshold where it was
Frozen ==
    Ticked =>
        \A i \in 1..Len(customers) :
            Near(PrevCustomers[i]) => customers[i].pos = PrevCustomers[i].pos

\* C21: once the targets stop changing (no message is taken after the first
\* frames), ticks scheduled fairly bring every live entity within
\* |dx| <= 0.5 and |dy| <= 0.5 of its target, where it stays for ever; a
\* tick never moves an entity that is within the threshold.
EventualSettling == (<>[]Settled) /\ []Frozen

\* the tick that brings an entity reported far from where it was created
\* within the threshold
EventualSettlingWitness ==
    /\ Ticked
    /\ \E i \in 1..Len(customers) :
          /\ ~Near(PrevCustomers[i])
          /\ Near(customers[i])
          /\ Len(customers[i].path) > 8

----------------------------------------------------------------------------
(* Unexpected message content *)

\* a device_data message whose data object has no people list
IsIncomplete(m) == ~IsMalformed(m) /\ "plan_data" \notin DOMAIN m.data

\* C22: a device_data message whose data lacks plan_data leaves the live
\* set, the statistics and the live image unchanged and raises no error out
\* of the message handling or the state update it queues.
IncompleteIgnored ==
    (Received /\ IsIncomplete(last.message)) =>
        /\ ~crashed
        /\ customers = last.pre.customers
        /\ dailyStats = last.pre.dailyStats
        /\ liveImage = last.pre.liveImage

----------------------------------------------------------------------------
(* Trail properties *)

\* two points are more than 30 floor-plan units apart
Apart(a, b) ==
    (a.x - b.x) * (a.x - b.x) + (a.y - b.y) * (a.y - b.y) > (30 * Q) * (30 * Q)

\* C23: any two consecutive points of a trail are more than 30 units apart;
\* a created entity's trail is its display position; a tick leaves a trail
\* as it was or appends the new display position to the trail or to its
\* latest points, in their order.
TrailSpacing ==
    /\ \A i \in 1..Len(customers) :
          \A j \in 1..(Len(customers[i].path) - 1) :
              Apart(customers[i].path[j], customers[i].path[j + 1])
    /\ Merged =>
          \A k \in 1..Len(customers) :
              customers[k].id \notin IdsOf(PrevCustomers) =>
                  customers[k].path = <<customers[k].pos>>
    /\ Ticked =>
          \A i \in 1..Len(customers) :
              LET before == PrevCustomers[i].path
                  after == customers[i].path
              IN  \/ after = before
                  \/ /\ customers[i].pos # PrevCustomers[i].pos
                     /\ \E k \in 0..Len(before) :
                           after = Append(SubSeq(before, k + 1, Len(before)),
                                          customers[i].pos)

\* a tick appended to a full trail: the oldest point went, the others kept
\* their order and the new display position came last
TrailSpacingWitness ==
    /\ Ticked
    /\ \E i \in 1..Len(customers) :
          /\ Len(PrevCustomers[i].path) = 16
          /\ customers[i].path[1] = PrevCustomers[i].path[2]
          /\ customers[i].path[15] = PrevCustomers[i].path[16]
          /\ customers[i].path[16] = customers[i].pos
          /\ customers[i].pos # PrevCustomers[i].pos

----------------------------------------------------------------------------
(* Frame conditions *)

\* C24: a tick never adds or removes an entity and never changes an id, a
\* target, a heading, a gender, an age, an entry timestamp or a statistic;
\* a message never changes a cell of the accumulator or of the published
\* heatmap; so the ids of the live set are those of the latest merge since
\* the facility was selected, whatever ticks came between.
TickFrame ==
    /\ Ticked =>
          /\ Len(customers) = Len(PrevCustomers)
          /\ \A i \in 1..Len(customers) :
                /\ customers[i].id = PrevCustomers[i].id
                /\ customers[i].target = PrevCustomers[i].target
                /\ customers[i].angle = PrevCustomers[i].angle
                /\ customers[i].gender = PrevCustomers[i].gender
                /\ customers[i].age = PrevCustomers[i].age
                /\ customers[i].totalStartTime = PrevCustomers[i].totalStartTime
          /\ entryTimesRef = last.pre.entryTimesRef
          /\ dailyStats = last.pre.dailyStats
    /\ Received =>
          /\ heatmapAccumulatorRef = last.pre.heatmapAccumulatorRef
          /\ heatmap = last.pre.heatmap
    /\ IdsOf(customers)
         = IF last.people = <<>> THEN {} ELSE PlanIds(last.people[1])

\* a tick moves an entity while another has arrived, after a merge that
\* retired an entity
TickFrameWitness ==
    /\ Ticked
    /\ dailyStats.completedVisits > 0
    /\ DOMAIN entryTimesRef # {}
    /\ \E i \in 1..Len(customers) : customers[i].pos # PrevCustomers[i].pos

----------------------------------------------------------------------------
(* Grid index *)

\* the column and the row of the cell of a position
ColOf(pos) == pos.x \div (25 * Q)
RowOf(pos) == pos.y \div (25 * Q)

====
